---- MODULE Spec2Model ----
(***************************************************************************)
(* Model of group_messaging/models.py (askbot): the Message / MessageMemo  *)
(* / SenderList tables, the MessageManager operations and the thread       *)
(* queries.                                                                *)
(*                                                                         *)
(* The relational store is modelled table by table.  A table that carries  *)
(* a unique constraint is a bag of rows, so that the constraint is what    *)
(* keeps a row single, not the data structure.  Strings are sequences of   *)
(* one-character strings.  None is 0 for a message reference.              *)
(***************************************************************************)
EXTENDS Integers, Sequences, FiniteSets, Bags, TLC

\* ------------------------------------------------------------ constants

\* models.py:8
MAX_TITLE_LENGTH == 80
\* models.py:9
MAX_SENDERS_INFO_LENGTH == 64
\* models.py:83
SEEN == 0
\* models.py:84
ARCHIVED == 1
\* models.py:201
STORED == 0
\* models.py:203
ONE_TIME == 2

\* ------------------------------------------------------------ bounds

\* the number of Message rows the store may hold
MaxMessages == 3
\* the number of requests that run at the same time
NumProcs == 3
\* the last instant of the clock
MaxTime == 3

\* ------------------------------------------------------------ universe

Users == {"al", "bo"}

\* User.username, as a sequence of characters
username(u) == <<u>>

\* GROUP_NAME_TPL % user.id
GROUP_NAME_TPL(u) == "_personal_" \o u

PersonalGroups == {GROUP_NAME_TPL(u) : u \in Users}

\* every group name the model uses: the personal groups and one ordinary group
GroupNames == PersonalGroups \cup {"staff"}

None == 0

\* sender=None, the default of get_threads: no sender filter is asked for
NoSender == "none"

ProcIds == 1..NumProcs

\* a process that has made no call
Idle ==
    [pc |-> "idle", sender |-> "none", message |-> None, todo |-> {},
     cur |-> "none"]

VARIABLES
    groups,        \* the Group table: the names that exist
    messages,      \* the Message table: sequence of rows, id = index
    recipients,    \* Message.recipients through table: bag of <<message, group>>
    memos,         \* the MessageMemo table: bag of [user, message, status]
    sender_lists,  \* the SenderList table: bag of recipient groups
    senders,       \* SenderList.senders through table: bag of <<group, user>>
    now,           \* datetime.datetime.now()
    procs          \* the requests in flight: process -> its place and locals

vars == <<groups, messages, recipients, memos, sender_lists, senders, now, procs>>

\* ------------------------------------------------------------ helpers

Min(a, b) == IF a < b THEN a ELSE b

\* the Python slice seq[:n]
Take(seq, n) == SubSeq(seq, 1, Min(n, Len(seq)))

\* the rows of bag b that satisfy P, each with its copies
BagFilter(b, P(_)) == [e \in {x \in DOMAIN b : P(x)} |-> b[e]]

RECURSIVE BagSumOver(_, _)
BagSumOver(b, S) ==
    IF S = {} THEN 0
    ELSE LET x == CHOOSE x \in S : TRUE IN b[x] + BagSumOver(b, S \ {x})

\* the bag of F(x) for the rows x of b (an UPDATE of every row)
BagMap(b, F(_)) ==
    [e \in {F(x) : x \in DOMAIN b} |-> BagSumOver(b, {x \in DOMAIN b : F(x) = e})]

\* str.split(sep) on a sequence of characters: '' splits to ['']
RECURSIVE Split(_, _)
Split(str, sep) ==
    IF \A i \in 1..Len(str) : str[i] # sep THEN <<str>>
    ELSE LET i == CHOOSE i \in 1..Len(str) :
                      str[i] = sep /\ \A j \in 1..(i - 1) : str[j] # sep
         IN <<SubSeq(str, 1, i - 1)>> \o Split(SubSeq(str, i + 1, Len(str)), sep)

\* sep.join(list)
RECURSIVE Join(_, _)
Join(list, sep) ==
    IF list = <<>> THEN <<>>
    ELSE IF Len(list) = 1 THEN list[1]
    ELSE list[1] \o <<sep>> \o Join(Tail(list), sep)

\* list.remove(x): drops the first occurrence of x
ListRemove(list, x) ==
    LET i == CHOOSE i \in 1..Len(list) :
                 list[i] = x /\ \A j \in 1..(i - 1) : list[j] # x
    IN SubSeq(list, 1, i - 1) \o SubSeq(list, i + 1, Len(list))

\* x in list
ListHas(list, x) == \E i \in 1..Len(list) : list[i] = x

\* ------------------------------------------------------------ the store

\* the tables the operations write, as one value
Store ==
    [messages |-> messages, recipients |-> recipients, memos |-> memos,
     sender_lists |-> sender_lists, senders |-> senders]

Commit(s) ==
    /\ messages' = s.messages
    /\ recipients' = s.recipients
    /\ memos' = s.memos
    /\ sender_lists' = s.sender_lists
    /\ senders' = s.senders

MessageIds == 1..Len(messages)

\* get_personal_group(user): Group.objects.get(name=...) finds the row or raises
\* DoesNotExist
has_personal_group(u) == GROUP_NAME_TPL(u) \in groups

\* the users of the ordinary group
Staff == {"bo"}

\* user.groups.all(): a user is in the personal group once it exists, and the
\* users of staff are in staff
user_groups(u) ==
    (IF has_personal_group(u) THEN {GROUP_NAME_TPL(u)} ELSE {})
    \cup (IF u \in Staff THEN {"staff"} ELSE {})

\* ------------------------------------------------------------ MessageMemo

\* no unique constraint
memo_unique_off(s, u, m) == TRUE

\* Meta.unique_together = ('user', 'message'): may a row (u, m) be inserted
memo_unique(s, u, m) ==
    \A r \in BagToSet(s.memos) : ~(r.user = u /\ r.message = m)

\* MessageMemo.objects.create(message=m, user=u, status=st): the INSERT, refused
\* with IntegrityError when the pair has a row
memo_create(s, u, m, st) ==
    IF memo_unique(s, u, m)
    THEN [ok |-> TRUE,
          s |-> [s EXCEPT !.memos =
                     @ (+) SetToBag({[user |-> u, message |-> m, status |-> st]})]]
    ELSE [ok |-> FALSE, s |-> s]

\* every ARCHIVED row, of whatever message
unarchived_any(r, m) ==
    IF r.status = ARCHIVED THEN [r EXCEPT !.status = SEEN] ELSE r

\* the row of memo r after  memos.filter(status=ARCHIVED).update(status=SEEN)
\* on the memos of message m
unarchived_row(r, m) ==
    IF r.message = m /\ r.status = ARCHIVED THEN [r EXCEPT !.status = SEEN] ELSE r

\* nothing is unarchived
unarchive_skipped(s, m) == s

\* Message.unarchive
unarchive(s, m) ==
    LET F(r) == unarchived_row(r, m)
    IN [s EXCEPT !.memos = BagMap(@, F)]

\* ------------------------------------------------------------ MessageManager.create

\* the parent taken for the root
resolve_root_parent(s, kw) ==
    IF "parent" \in DOMAIN kw THEN kw.parent ELSE None

\* the root of the new message: an explicit root, else the parent's root, else
\* the parent, else None
resolve_root(s, kw) ==
    IF "root" \in DOMAIN kw /\ kw.root # None THEN kw.root
    ELSE IF "parent" \in DOMAIN kw /\ kw.parent # None
         THEN IF s.messages[kw.parent].root # None
              THEN s.messages[kw.parent].root
              ELSE kw.parent
         ELSE None

\* dummy parse message function
parse_message(v) == v

\* the headline given, else the text, with no cut
make_headline_uncut(kw) ==
    IF "headline" \in DOMAIN kw THEN kw.headline ELSE kw.text

\* headline[:MAX_TITLE_LENGTH] of the headline given, else of the text
make_headline(kw) ==
    Take(IF "headline" \in DOMAIN kw THEN kw.headline ELSE kw.text, MAX_TITLE_LENGTH)

\* the row  super().create(**kwargs)  inserts at time t; the fields that are
\* not given take the model's defaults
new_message(s, kw, t) ==
    [message_type   |-> IF "message_type" \in DOMAIN kw THEN kw.message_type ELSE STORED,
     sender         |-> kw.sender,
     senders_info   |-> IF "senders_info" \in DOMAIN kw THEN kw.senders_info ELSE <<>>,
     root           |-> resolve_root(s, kw),
     parent         |-> IF "parent" \in DOMAIN kw THEN kw.parent ELSE None,
     headline       |-> make_headline(kw),
     text           |-> kw.text,
     html           |-> parse_message(kw.text),
     sent_at        |-> t,
     last_active_at |-> t]

insert_message(s, row) == [s EXCEPT !.messages = Append(@, row)]

\* the memo created ARCHIVED
self_memo_archived(s, sender, m) == memo_create(s, sender, m, ARCHIVED)

\* the sender's memo of the message just inserted
self_memo(s, sender, m) == memo_create(s, sender, m, SEEN)

\* MessageManager.create: the Message row, then the sender's SEEN memo.  Nothing
\* ties the two statements together: when the second raises, the first stays.
create(s, kw, t) ==
    LET s1 == insert_message(s, new_message(s, kw, t))
        id == Len(s1.messages)
        r  == self_memo(s1, kw.sender, id)
    IN [ok |-> r.ok, s |-> r.s, message |-> id]

\* ------------------------------------------------------------ Message.add_recipients

\* message.recipients.all()
recipients_of(s, m) == {g \in GroupNames : BagIn(<<m, g>>, s.recipients)}

\* self.recipients.add(*gs): the rows that are missing are inserted
recipients_add(s, m, gs) ==
    [s EXCEPT !.recipients = @ (+) SetToBag({<<m, g>> : g \in gs \ recipients_of(s, m)})]

\* the SELECT of get_or_create: is there a SenderList of recipient g
sender_list_exists(s, g) == BagIn(g, s.sender_lists)

\* recipient = ForeignKey(Group, unique=True): may a row of g be inserted
sender_list_unique(s, g) == ~BagIn(g, s.sender_lists)

\* the INSERT of get_or_create, refused with IntegrityError when g has a row;
\* get_or_create catches the error and reads the row that is there
sender_list_insert(s, g) ==
    IF sender_list_unique(s, g)
    THEN [ok |-> TRUE, s |-> [s EXCEPT !.sender_lists = @ (+) SetToBag({g})]]
    ELSE [ok |-> FALSE, s |-> s]

\* SenderList.objects.get_or_create(recipient=g): the row is read, and inserted
\* when there is none
get_or_create(s, g) ==
    IF sender_list_exists(s, g) THEN s ELSE sender_list_insert(s, g).s

\* the SELECT of senders.add(u): u is not among the senders of g yet
senders_missing(s, g, u) == ~BagIn(<<g, u>>, s.senders)

\* the rows of g replaced by the one row (g, u)
senders_replace(s, g, u) ==
    [ok |-> TRUE,
     s |-> [s EXCEPT !.senders =
               BagFilter(@, LAMBDA r : r[1] # g) (+) SetToBag({<<g, u>>})]]

\* the INSERT of senders.add(u) into the through table, which is unique on
\* (senderlist, user): refused with IntegrityError when the row is there
senders_insert(s, g, u) ==
    IF ~BagIn(<<g, u>>, s.senders)
    THEN [ok |-> TRUE, s |-> [s EXCEPT !.senders = @ (+) SetToBag({<<g, u>>})]]
    ELSE [ok |-> FALSE, s |-> s]

\* the sender is not recorded
senders_add_skipped(s, g, u) == s

\* sender_list.senders.add(u): the rows that exist are read, the missing one
\* is inserted
senders_add(s, g, u) ==
    IF senders_missing(s, g, u) THEN senders_insert(s, g, u).s ELSE s

\* the body of the loop, for one recipient
record_send(s, g, u) == senders_add(get_or_create(s, g), g, u)

RECURSIVE record_sends(_, _, _)
record_sends(s, gs, u) ==
    IF gs = {} THEN s
    ELSE LET g == CHOOSE g \in gs : TRUE
         IN record_sends(record_send(s, g, u), gs \ {g}, u)

\* Message.add_recipients
add_recipients(s, m, gs) ==
    record_sends(recipients_add(s, m, gs), gs, s.messages[m].sender)

\* ------------------------------------------------------------ Message.update_senders_info

\* the new value of senders_info for a message whose sender is named uname
senders_info_update(info, uname) ==
    LET names  == Split(info, ",")
        others == IF ListHas(names, uname) THEN ListRemove(names, uname) ELSE names
    IN Take(Join(<<uname>> \o others, ","), 64)

\* Message.update_senders_info on the in-memory object obj of message m: the
\* field is recomputed from the message's own sender and the object is saved
update_senders_info(s, m, obj) ==
    [s EXCEPT !.messages[m] =
        [obj EXCEPT !.senders_info = senders_info_update(@, username(obj.sender))]]

\* ------------------------------------------------------------ create_thread, create_response

\* MessageManager.create_thread
create_thread(s, sender, gs, text, t) ==
    LET c == create(s, [message_type |-> STORED, sender |-> sender,
                        senders_info |-> username(sender), text |-> text], t)
    IN IF ~c.ok THEN [ok |-> FALSE, s |-> c.s, message |-> c.message]
       ELSE [ok |-> TRUE, s |-> add_recipients(c.s, c.message, gs), message |-> c.message]

\* the parent's recipients alone
response_recipients_only(s, parent) == recipients_of(s, parent)

\* the recipients of the response: the parent's recipients and the personal
\* group of the parent's sender
response_recipients(s, parent) ==
    recipients_of(s, parent) \cup {GROUP_NAME_TPL(s.messages[parent].sender)}

\* the statements after get_personal_group without line 186: the parent gets
\* no recipient
response_tail_parent_skipped(s, m, parent, t) ==
    LET s1   == add_recipients(s, m, response_recipients(s, parent))
        root == s1.messages[m].root
        obj  == [s1.messages[root] EXCEPT !.last_active_at = t]
        s3   == update_senders_info(s1, root, obj)
    IN unarchive(s3, root)

\* the statements after get_personal_group with no write of last_active_at
response_tail_not_bumped(s, m, parent, t) ==
    LET senders_group == GROUP_NAME_TPL(s.messages[parent].sender)
        s1   == add_recipients(s, m, response_recipients(s, parent))
        s2   == add_recipients(s1, parent, {senders_group})
        root == s2.messages[m].root
        s3   == update_senders_info(s2, root, s2.messages[root])
    IN unarchive(s3, root)

\* the statements after get_personal_group with the parent taken for the root
response_tail_on_parent(s, m, parent, t) ==
    LET senders_group == GROUP_NAME_TPL(s.messages[parent].sender)
        s1   == add_recipients(s, m, response_recipients(s, parent))
        s2   == add_recipients(s1, parent, {senders_group})
        obj  == [s2.messages[parent] EXCEPT !.last_active_at = t]
        s3   == update_senders_info(s2, parent, obj)
    IN unarchive(s3, parent)

\* the statements of create_response after get_personal_group has returned, for
\* the new message m, run at time t
response_tail(s, m, parent, t) ==
    LET senders_group == GROUP_NAME_TPL(s.messages[parent].sender)
        s1   == add_recipients(s, m, response_recipients(s, parent))
        s2   == add_recipients(s1, parent, {senders_group})
        root == s2.messages[m].root
        obj  == [s2.messages[root] EXCEPT !.last_active_at = t]
        s3   == update_senders_info(s2, root, obj)
    IN unarchive(s3, root)

\* MessageManager.create_response, with the message inserted at time t and
\* datetime.datetime.now() of line 188 read at time t2.  The statements run one
\* after the other with no transaction around them: when get_personal_group
\* raises DoesNotExist the message and its memo are already stored.
create_response_timed(s, sender, text, parent, t, t2) ==
    LET c == create(s, [parent |-> parent, message_type |-> STORED,
                        sender |-> sender, text |-> text], t)
    IN IF ~c.ok THEN [ok |-> FALSE, s |-> c.s, message |-> c.message]
       ELSE IF ~has_personal_group(s.messages[parent].sender)
            THEN [ok |-> FALSE, s |-> c.s, message |-> c.message]
            ELSE [ok |-> TRUE, s |-> response_tail(c.s, c.message, parent, t2),
                  message |-> c.message]

\* MessageManager.create_response in one instant
create_response(s, sender, text, parent, t) ==
    create_response_timed(s, sender, text, parent, t, t)

\* ------------------------------------------------------------ get_threads

\* the memo rows that match  memos__status=st  for message m, of any user
memo_rows_any_user(m, u, st) ==
    BagFilter(memos, LAMBDA r : r.message = m /\ r.status = st)

\* the memo rows that match  memos__status=st, memos__user=u  for message m
memo_rows(m, u, st) ==
    BagFilter(memos, LAMBDA r : r.message = m /\ r.user = u /\ r.status = st)

\* the recipient rows that match  recipients__in=user_groups  for message m
recipient_rows(m, gs) ==
    BagFilter(recipients, LAMBDA r : r[1] = m /\ r[2] \in gs)

\* user_thread_filter, with the sender filter when a sender is given
thread_filter(m, sender) ==
    /\ messages[m].root = None
    /\ messages[m].message_type = STORED
    /\ sender # NoSender => messages[m].sender = sender

\* ~Q(memos__user=u): the message has no memo row of user u
no_memo_of(m, u) == \A r \in BagToSet(memos) : ~(r.message = m /\ r.user = u)

\* the rows as they come, with no distinct()
distinct_dropped(n) == n

\* .distinct() on n result rows of one message
distinct(n) == IF n > 0 THEN 1 ELSE 0

\* the result of the deleted=False branch: the rows of part1 | part2 for
\* message m, then distinct()
not_deleted_rows(m, u) ==
    LET joined == BagCardinality(recipient_rows(m, user_groups(u)))
        part1  == joined * BagCardinality(memo_rows(m, u, SEEN))
        part2  == IF no_memo_of(m, u) THEN joined ELSE 0
    IN distinct(part1 + part2)

\* the deleted=True branch without memos__user: the ARCHIVED memo rows of any
\* user are joined
deleted_rows_any_user(m, u) ==
    BagCardinality(recipient_rows(m, user_groups(u))) *
        BagCardinality(BagFilter(memos, LAMBDA r : r.message = m /\ r.status = ARCHIVED))

\* the result of the deleted=True branch: one row per joined recipient row and
\* ARCHIVED memo row of the user
deleted_rows(m, u) ==
    BagCardinality(recipient_rows(m, user_groups(u))) * BagCardinality(memo_rows(m, u, ARCHIVED))

\* MessageManager.get_threads: how many times each message is in the result
get_threads(recipient, sender, deleted) ==
    LET n(m) == IF ~thread_filter(m, sender) THEN 0
                ELSE IF deleted THEN deleted_rows(m, recipient)
                ELSE not_deleted_rows(m, recipient)
    IN [m \in {x \in MessageIds : n(x) > 0} |-> n(m)]

\* ------------------------------------------------------------ inputs

\* a text of n characters
RECURSIVE TextOf(_)
TextOf(n) ==
    IF n = 0 THEN <<>>
    ELSE Append(TextOf(n - 1), IF n > MAX_TITLE_LENGTH THEN "z"
                               ELSE IF n % 2 = 1 THEN "x" ELSE "y")

\* the texts a caller sends
Texts == {<<"h", "i">>}

\* the message types create is called with outside create_thread and
\* create_response
MessageTypes == {ONE_TIME}

\* the users who call create directly
Notifiers == {"al"}

\* the recipient lists a caller passes to create_thread and add_recipients
RecipientLists == {{"_personal_al"}, {"staff", "_personal_bo"}}

\* ------------------------------------------------------------ the specification

Init ==
    /\ groups = {"staff"} \cup {GROUP_NAME_TPL(u) : u \in Users \ {"al"}}
    /\ messages = <<>>
    /\ recipients = EmptyBag
    /\ memos = EmptyBag
    /\ sender_lists = EmptyBag
    /\ senders = EmptyBag
    /\ now = 0
    /\ procs = [p \in ProcIds |-> Idle]

\* create_personal_group(user); Group.name is unique, a second call raises
CreatePersonalGroup(u) ==
    /\ ~has_personal_group(u)
    /\ groups' = groups \cup {GROUP_NAME_TPL(u)}
    /\ UNCHANGED <<messages, recipients, memos, sender_lists, senders, now, procs>>

\* Message.objects.create_thread(sender, recipients, text)
CreateThread(sender, gs, text) ==
    /\ Len(messages) < MaxMessages
    /\ gs \subseteq groups
    /\ LET r == create_thread(Store, sender, gs, text, now)
       IN /\ Commit(r.s)
    /\ UNCHANGED <<groups, now, procs>>

\* Message.objects.create_response(sender, text, parent)
CreateResponse(sender, parent, text) ==
    /\ Len(messages) < MaxMessages
    /\ LET r == create_response(Store, sender, text, parent, now)
       IN Commit(r.s)
    /\ UNCHANGED <<groups, now, procs>>

\* Message.objects.create(sender=..., message_type=..., text=...): a message
\* that is not part of a thread, addressed afterwards with add_recipients
Create(sender, mtype, text) ==
    /\ Len(messages) < MaxMessages
    /\ LET r == create(Store, [sender |-> sender, message_type |-> mtype,
                               text |-> text], now)
       IN /\ Commit(r.s)
    /\ UNCHANGED <<groups, now, procs>>

\* message.add_recipients(recipients), on a message that has none yet
AddRecipients(m, gs) ==
    /\ recipients_of(Store, m) = {}
    /\ gs \subseteq groups
    /\ Commit(add_recipients(Store, m, gs))
    /\ UNCHANGED <<groups, now, procs>>

\* MessageMemo.objects.create(user=u, message=m, status=st): a user sees or
\* archives a thread for the first time; a second row for the pair is refused
MemoCreate(u, m, st) ==
    /\ messages[m].root = None
    /\ LET r == memo_create(Store, u, m, st)
       IN Commit(r.s)
    /\ UNCHANGED <<groups, now, procs>>

\* memo.status = st; memo.save(): a user archives a thread or restores it
MemoSetStatus(u, m, st) ==
    /\ messages[m].root = None
    /\ ~memo_unique(Store, u, m)
    /\ memos' = BagMap(memos, LAMBDA r : IF r.user = u /\ r.message = m
                                          THEN [r EXCEPT !.status = st] ELSE r)
    /\ memos' # memos
    /\ UNCHANGED <<groups, messages, recipients, sender_lists, senders, now, procs>>

\* message.unarchive()
Unarchive(m) ==
    /\ Commit(unarchive(Store, m))
    /\ UNCHANGED <<groups, now, procs>>

\* the calls on threads: sends, replies, and the users' reading and archiving
Next ==
    \/ \E u \in Users : CreatePersonalGroup(u)
    \/ \E u \in Users, gs \in RecipientLists, tx \in Texts : CreateThread(u, gs, tx)
    \/ \E u \in Users, p \in MessageIds, tx \in Texts : CreateResponse(u, p, tx)
    \/ \E u \in Users, m \in MessageIds, st \in {SEEN, ARCHIVED} : MemoCreate(u, m, st)
    \/ \E u \in Users, m \in MessageIds, st \in {SEEN, ARCHIVED} : MemoSetStatus(u, m, st)
    \/ \E m \in MessageIds : Unarchive(m)

Spec == Init /\ [][Next]_vars

\* the same calls, and messages outside threads: created with create by a
\* notifier and addressed with add_recipients
NextQuery ==
    \/ \E u \in Users : CreatePersonalGroup(u)
    \/ \E u \in Users, gs \in RecipientLists, tx \in Texts : CreateThread(u, gs, tx)
    \/ \E u \in Users, p \in MessageIds, tx \in Texts : CreateResponse(u, p, tx)
    \/ \E u \in Notifiers, ty \in MessageTypes, tx \in Texts : Create(u, ty, tx)
    \/ \E m \in MessageIds, gs \in RecipientLists : AddRecipients(m, gs)
    \/ \E u \in Users, m \in MessageIds, st \in {SEEN, ARCHIVED} : MemoCreate(u, m, st)
    \/ \E u \in Users, m \in MessageIds, st \in {SEEN, ARCHIVED} : MemoSetStatus(u, m, st)
    \/ \E m \in MessageIds : Unarchive(m)

SpecQuery == Init /\ [][NextQuery]_vars

\* ------------------------------------------------------------ reading the store

\* the statuses of the memo rows of user u for message m
memo_statuses(u, m) ==
    {r.status : r \in {x \in BagToSet(memos) : x.user = u /\ x.message = m}}

\* user u has no memo row for message m
no_memo(u, m) == memo_statuses(u, m) = {}

\* message m is addressed to a group of user u
covers(u, m) == recipients_of(Store, m) \cap user_groups(u) # {}

\* message m is a stored thread root
is_thread(m) == messages[m].root = None /\ messages[m].message_type = STORED

\* the thread root of message m
thread_of(m) == IF messages[m].root = None THEN m ELSE messages[m].root

\* the messages in a result of get_threads
inbox(u) == DOMAIN get_threads(u, NoSender, FALSE)

archive(u) == DOMAIN get_threads(u, NoSender, TRUE)

\* ------------------------------------------------------------ C1

\* C1: for every user R and message M, M is in get_threads(R, deleted=False)
\* exactly when M is a thread root, is STORED, is addressed to a group of R, and
\* R's memo of M is SEEN or R has no memo of M; and M is in the result once.
C1_InboxContents ==
    \A R \in Users : \A M \in MessageIds :
        LET res == get_threads(R, NoSender, FALSE)
        IN /\ M \in DOMAIN res <=>
                /\ messages[M].root = None
                /\ messages[M].message_type = STORED
                /\ covers(R, M)
                /\ (SEEN \in memo_statuses(R, M) \/ no_memo(R, M))
           /\ M \in DOMAIN res => res[M] = 1

\* a user whose inbox holds a thread they have no memo of, addressed to two of
\* their groups, and a thread they have seen, while a one-time message addressed
\* to them is not in it
C1_Witness ==
    \E R \in Users : \E M1, M2, M3 \in MessageIds :
        /\ M1 \in inbox(R) /\ no_memo(R, M1)
        /\ Cardinality(recipients_of(Store, M1) \cap user_groups(R)) = 2
        /\ M2 \in inbox(R) /\ SEEN \in memo_statuses(R, M2)
        /\ messages[M3].message_type = ONE_TIME /\ covers(R, M3) /\ M3 \notin inbox(R)

\* ------------------------------------------------------------ C2

\* the reply create_response(u, tx, p) returns (it does not raise)
response_returns(u, p, tx) == create_response(Store, u, tx, p, now).ok

\* C2: a thread T addressed to a group of R is in R's inbox while R has no
\* memo of it; while R's memo of it is ARCHIVED it is out of the inbox and in
\* the deleted view; and after every create_response that returns, on any
\* message of T by any user, T is in R's inbox and not in the deleted view.
C2_ArchiveAndRevive ==
    /\ [](\A R \in Users : \A T \in MessageIds :
            (is_thread(T) /\ covers(R, T)) =>
                /\ no_memo(R, T) => T \in inbox(R)
                /\ memo_statuses(R, T) = {ARCHIVED} =>
                       (T \notin inbox(R) /\ T \in archive(R)))
    /\ [][\A u \in Users : \A p \in MessageIds : \A tx \in Texts :
            (CreateResponse(u, p, tx) /\ response_returns(u, p, tx)) =>
                \A R \in Users :
                    (is_thread(thread_of(p)) /\ covers(R, thread_of(p)))' =>
                        (thread_of(p) \in inbox(R) /\ thread_of(p) \notin archive(R))']_vars

\* R has archived a thread addressed to them, it is in the deleted view, and a
\* reply to it by another user is about to be stored, which returns R's memo to
\* SEEN
C2_Witness ==
    \E R \in Users : \E T \in MessageIds : \E u \in Users \ {R} : \E tx \in Texts :
        /\ is_thread(T) /\ covers(R, T)
        /\ memo_statuses(R, T) = {ARCHIVED}
        /\ T \in archive(R) /\ T \notin inbox(R)
        /\ Len(messages) < MaxMessages
        /\ response_returns(u, T, tx)
        /\ [user |-> R, message |-> T, status |-> SEEN]
               \in BagToSet(create_response(Store, u, tx, T, now).s.memos)

\* ------------------------------------------------------------ C3

\* C3: a create_response that raises leaves every table as it was.
C3_AllOrNothing ==
    [][\A u \in Users : \A p \in MessageIds : \A tx \in Texts :
          (CreateResponse(u, p, tx) /\ ~response_returns(u, p, tx)) =>
              UNCHANGED <<messages, recipients, memos, sender_lists, senders>>]_vars

\* ------------------------------------------------------------ C5

\* C5: after every create, create_thread and create_response that returns a
\* message M sent by S, the memo (S, M, SEEN) is stored.
C5_SelfSeen ==
    [][( \/ \E u \in Notifiers, ty \in MessageTypes, tx \in Texts : Create(u, ty, tx)
         \/ \E u \in Users, gs \in RecipientLists, tx \in Texts : CreateThread(u, gs, tx)
         \/ \E u \in Users, p \in MessageIds, tx \in Texts :
               CreateResponse(u, p, tx) /\ response_returns(u, p, tx) )
       => LET M == Len(messages')
          IN /\ M = Len(messages) + 1
             /\ BagIn([user |-> messages'[M].sender, message |-> M, status |-> SEEN],
                      memos')]_vars

\* the newest message is a response that returned (it has its recipients), and
\* its sender's memo of it is SEEN; a thread and a one-time message have theirs
C5_Witness ==
    /\ Len(messages) = MaxMessages
    /\ LET M == Len(messages)
       IN /\ messages[M].parent # None
          /\ recipients_of(Store, M) # {}
          /\ memo_statuses(messages[M].sender, M) = {SEEN}
    /\ \E N \in MessageIds :
          /\ messages[N].message_type = ONE_TIME
          /\ memo_statuses(messages[N].sender, N) = {SEEN}

\* ------------------------------------------------------------ C8

\* the message reached from m by following parent links to the end
RECURSIVE top_ancestor(_)
top_ancestor(m) ==
    IF messages[m].parent = None THEN m ELSE top_ancestor(messages[m].parent)

\* C8: for every message M, root is null exactly when parent is null;
\* otherwise root is the topmost ancestor of M, which has a null root, and the
\* parent of M is that root or has that root.
C8_RootInvariant ==
    \A M \in MessageIds :
        /\ messages[M].root = None <=> messages[M].parent = None
        /\ messages[M].parent # None =>
              /\ messages[M].root = top_ancestor(M)
              /\ messages[messages[M].root].root = None
              /\ \/ messages[M].parent = messages[M].root
                 \/ messages[messages[M].parent].root = messages[M].root

\* a response to a response: its parent is not its root
C8_Witness ==
    \E M \in MessageIds :
        /\ messages[M].parent # None
        /\ messages[messages[M].parent].parent # None
        /\ messages[M].root # messages[M].parent
        /\ messages[M].root = top_ancestor(M)

\* ------------------------------------------------------------ C9

\* the memo rows of the pair (u, m)
memo_count(u, m) ==
    BagCardinality(BagFilter(memos, LAMBDA r : r.user = u /\ r.message = m))

\* C9: there is at most one memo row per (user, message), and creating a memo
\* for a pair that has one is refused and changes nothing.
C9_MemoUnique ==
    \A u \in Users : \A m \in MessageIds :
        /\ memo_count(u, m) <= 1
        /\ memo_count(u, m) = 1 =>
              \A st \in {SEEN, ARCHIVED} :
                  LET r == memo_create(Store, u, m, st)
                  IN ~r.ok /\ r.s = Store

\* a user has a memo of a thread of another user, made by the user's own
\* call: a second create for the pair is the refused one
C9_Witness ==
    \E u \in Users : \E m \in MessageIds :
        /\ messages[m].sender # u
        /\ messages[m].root = None
        /\ memo_count(u, m) = 1
        /\ ~memo_create(Store, u, m, SEEN).ok

\* ------------------------------------------------------------ C10

\* C10: unarchive(m) turns the ARCHIVED memos of m to SEEN and changes nothing
\* else: no other status, no row added or removed, no memo of another message,
\* no other table.
C10_UnarchiveFrame ==
    [][\A m \in MessageIds :
          Unarchive(m) =>
              /\ \A u \in Users : \A m2 \in MessageIds :
                    memo_statuses(u, m2)' =
                        IF m2 = m /\ memo_statuses(u, m2) = {ARCHIVED}
                        THEN {SEEN} ELSE memo_statuses(u, m2)
              /\ \A u \in Users : \A m2 \in MessageIds : memo_count(u, m2)' = memo_count(u, m2)
              /\ UNCHANGED <<groups, messages, recipients, sender_lists, senders, now, procs>>]_vars

\* a thread one user has archived and the other has seen, beside a thread that
\* its sender has archived and the other user has no memo of: unarchive of the
\* first is about to change one row
C10_Witness ==
    \E m, m2 \in MessageIds : \E u1, u2 \in Users :
        /\ m # m2 /\ u1 # u2
        /\ memo_statuses(u1, m) = {ARCHIVED}
        /\ memo_statuses(u2, m) = {SEEN}
        /\ memo_statuses(u2, m2) = {ARCHIVED}
        /\ no_memo(u1, m2)
        /\ unarchive(Store, m).memos # memos
        /\ unarchive(Store, m).memos = unarchive(unarchive(Store, m), m).memos

\* ------------------------------------------------------------ concurrent sends

\* Requests run at the same time against the one store.  Nothing in the source
\* opens a transaction, so every statement of create_thread is a step of its
\* own and the other requests see what it wrote.

\* the recipient lists of the concurrent sends
ConcRecipientLists == {{"staff"}, {"staff", "_personal_bo"}}

\* process p is at place pc
at(p, pc) == procs[p].pc = pc

\* the process goes on to the next recipient of the loop, or returns
next_recipient(p, pr) ==
    LET left == pr.todo \ {pr.cur}
    IN [pr EXCEPT !.todo = left, !.pc = IF left = {} THEN "done" ELSE "get"]

\* create_thread is called; create inserts the Message row
BeginThread(p, u, gs, tx) ==
    /\ at(p, "idle")
    /\ Len(messages) < MaxMessages
    /\ gs \subseteq groups
    /\ Commit(insert_message(Store, new_message(Store,
           [message_type |-> STORED, sender |-> u, senders_info |-> username(u),
            text |-> tx], now)))
    /\ procs' = [procs EXCEPT ![p] =
           [pc |-> "memo", sender |-> u, message |-> Len(messages) + 1,
            todo |-> gs, cur |-> "none"]]
    /\ UNCHANGED <<groups, now>>

\* create inserts the sender's memo and returns the message
SelfMemo(p) ==
    /\ at(p, "memo")
    /\ LET r == self_memo(Store, procs[p].sender, procs[p].message)
       IN /\ Commit(r.s)
          /\ procs' = [procs EXCEPT ![p].pc = IF r.ok THEN "recipients" ELSE "raised"]
    /\ UNCHANGED <<groups, now>>

\* add_recipients: self.recipients.add(*recipients)
RecipientsAdd(p) ==
    /\ at(p, "recipients")
    /\ Commit(recipients_add(Store, procs[p].message, procs[p].todo))
    /\ procs' = [procs EXCEPT ![p].pc = "get"]
    /\ UNCHANGED <<groups, now>>

\* the loop takes recipient g; get_or_create reads its SenderList
ListGet(p, g) ==
    /\ at(p, "get")
    /\ g \in procs[p].todo
    /\ procs' = [procs EXCEPT ![p].cur = g,
                              ![p].pc = IF sender_list_exists(Store, g)
                                        THEN "senders_read" ELSE "list_insert"]
    /\ UNCHANGED <<groups, messages, recipients, memos, sender_lists, senders, now>>

\* get_or_create inserts the SenderList it did not find; when another request
\* has inserted it meanwhile the INSERT is refused and the row is read again
ListInsert(p) ==
    /\ at(p, "list_insert")
    /\ Commit(sender_list_insert(Store, procs[p].cur).s)
    /\ procs' = [procs EXCEPT ![p].pc = "senders_read"]
    /\ UNCHANGED <<groups, now>>

\* senders.add reads the rows of the sender; when the sender is there it has
\* nothing to insert
SendersRead(p) ==
    /\ at(p, "senders_read")
    /\ procs' = [procs EXCEPT ![p] =
           IF senders_missing(Store, procs[p].cur, procs[p].sender)
           THEN [@ EXCEPT !.pc = "senders_insert"]
           ELSE next_recipient(p, @)]
    /\ UNCHANGED <<groups, messages, recipients, memos, sender_lists, senders, now>>

\* senders.add inserts the row it did not find.  When another request has
\* inserted it meanwhile the INSERT is refused: the many-to-many manager of
\* Django before 2.2 lets the IntegrityError out of create_thread, the later
\* ones insert with the conflict ignored.  The source names no version, so both
\* outcomes are taken.
SendersInsert(p) ==
    /\ at(p, "senders_insert")
    /\ LET r == senders_insert(Store, procs[p].cur, procs[p].sender)
       IN /\ Commit(r.s)
          /\ \/ procs' = [procs EXCEPT ![p] = next_recipient(p, @)]
             \/ /\ ~r.ok
                /\ procs' = [procs EXCEPT ![p].pc = "raised"]
    /\ UNCHANGED <<groups, now>>

NextConc ==
    \/ \E p \in ProcIds, u \in Users, gs \in ConcRecipientLists, tx \in Texts :
          BeginThread(p, u, gs, tx)
    \/ \E p \in ProcIds : SelfMemo(p)
    \/ \E p \in ProcIds : RecipientsAdd(p)
    \/ \E p \in ProcIds, g \in GroupNames : ListGet(p, g)
    \/ \E p \in ProcIds : ListInsert(p)
    \/ \E p \in ProcIds : SendersRead(p)
    \/ \E p \in ProcIds : SendersInsert(p)

SpecConc == Init /\ [][NextConc]_vars


\* ------------------------------------------------ properties of concurrent sends

\* C4: in no reachable state, the states between the statements of a send
\* included, is there a stored Message without a MessageMemo of its sender for
\* that message.
C4_NoOrphanMessage ==
    \A m \in MessageIds : ~no_memo(messages[m].sender, m)

\* the call of process p is over, by return or by exception
finished(p) == procs[p].pc \in {"idle", "done", "raised"}

\* C6: whatever the interleaving of the concurrent sends, a recipient group
\* has at most one SenderList row and no send fails with an exception.
C6_OneListNoFailure ==
    /\ \A g \in GroupNames : CopiesIn(g, sender_lists) <= 1
    /\ \A p \in ProcIds : ~at(p, "raised")

\* SenderList(g).senders
senders_of(g) == {u \in Users : BagIn(<<g, u>>, senders)}

\* the senders of the stored messages addressed to g
addressed_to(g) ==
    {messages[m].sender : m \in {x \in MessageIds : g \in recipients_of(Store, x)}}

\* the recipients which the send of p has gone through: all of them when it
\* returned, those before the failing one and the failing one when it raised
recorded(p) ==
    IF at(p, "done") \/ (at(p, "raised") /\ procs[p].cur # "none")
    THEN (recipients_of(Store, procs[p].message) \ procs[p].todo) \cup
         ({procs[p].cur} \ {"none"})
    ELSE {}

C12_ResponderFirst ==
    [][\A u \in Users : \A p \in MessageIds : \A tx \in Texts :
          (CreateResponse(u, p, tx) /\ response_returns(u, p, tx)) =>
              LET root == thread_of(p)
                  was  == messages[root].senders_info
                  is   == messages'[root].senders_info
                  names == Split(was, ",")
                  others == IF ListHas(names, username(u))
                            THEN ListRemove(names, username(u)) ELSE names
              IN /\ Len(is) <= MAX_SENDERS_INFO_LENGTH
                 /\ is = Take(Join(<<username(u)>> \o others, ","),
                              MAX_SENDERS_INFO_LENGTH)]_vars


\* ------------------------------------------------------------ C13

\* C13: a user U who is in a group that is a recipient of some message of
\* thread T, the root or a response, and who has not archived T, has the root
\* of T in get_threads(U, deleted=False).
C13_AnyRecipientSees ==
    \A U \in Users : \A m \in MessageIds :
        (/\ is_thread(thread_of(m))
         /\ covers(U, m)
         /\ ARCHIVED \notin memo_statuses(U, thread_of(m)))
            => thread_of(m) \in inbox(U)


\* ------------------------------------------------------------ C14

\* C14: for every user R, sender filter S (or none) and message M,
\* get_threads(R, sender=S, deleted=True) contains M exactly when M is a
\* thread root of type STORED addressed to a group of R, sent by S when S is
\* given, and R's memo of M exists and is ARCHIVED; the ARCHIVED memo of
\* another user does not put M in R's deleted view.
C14_DeletedContents ==
    \A R \in Users : \A S \in Users \cup {NoSender} : \A M \in MessageIds :
        M \in DOMAIN get_threads(R, S, TRUE) <=>
            /\ messages[M].root = None
            /\ messages[M].message_type = STORED
            /\ covers(R, M)
            /\ S # NoSender => messages[M].sender = S
            /\ ARCHIVED \in memo_statuses(R, M)

\* R has archived a thread sent by S: it is in R's deleted view, also under
\* the sender filter S, and not under the filter of another sender; a second
\* thread addressed to R, archived by another user only, is not in R's view
C14_Witness ==
    \E R \in Users : \E S \in Users : \E M1, M2 \in MessageIds :
        /\ M1 \in DOMAIN get_threads(R, NoSender, TRUE)
        /\ messages[M1].sender = S
        /\ M1 \in DOMAIN get_threads(R, S, TRUE)
        /\ \A S2 \in Users \ {S} : M1 \notin DOMAIN get_threads(R, S2, TRUE)
        /\ is_thread(M2) /\ covers(R, M2)
        /\ \E U \in Users \ {R} : ARCHIVED \in memo_statuses(U, M2)
        /\ ARCHIVED \notin memo_statuses(R, M2)
        /\ M2 \notin DOMAIN get_threads(R, NoSender, TRUE)


\* ------------------------------------------------------------ C15

\* C15: when user B replies with create_response to a message P written by
\* user A and the call returns, the new message has P as parent and the thread
\* root of P as root (P itself when P is a root), and the personal group of A
\* is a recipient of P and of the new message.
C15_ReplyToAuthor ==
    [][\A u \in Users : \A p \in MessageIds : \A tx \in Texts :
          \A M \in 1..MaxMessages :
            (CreateResponse(u, p, tx) /\ response_returns(u, p, tx)
                /\ M = Len(messages) + 1) =>
                /\ Len(messages') = M
                /\ messages'[M].parent = p
                /\ messages'[M].root = (IF messages[p].root = None THEN p
                                        ELSE messages[p].root)
                /\ GROUP_NAME_TPL(messages[p].sender) \in recipients_of(Store, M)'
                /\ GROUP_NAME_TPL(messages[p].sender) \in recipients_of(Store, p)']_vars

\* B has replied to a thread root of A, and A has replied to that reply: each
\* response has the root of the thread as root, and each parent and response
\* has the personal group of the parent's author among its recipients
C15_Witness ==
    \E T, M1, M2 \in MessageIds :
        /\ messages[T].root = None
        /\ messages[M1].parent = T /\ messages[M1].root = T
        /\ messages[M1].sender # messages[T].sender
        /\ GROUP_NAME_TPL(messages[T].sender) \in
               recipients_of(Store, T) \cap recipients_of(Store, M1)
        /\ messages[M2].parent = M1 /\ messages[M2].root = T
        /\ messages[M2].sender # messages[M1].sender
        /\ GROUP_NAME_TPL(messages[M1].sender) \in
               recipients_of(Store, M1) \cap recipients_of(Store, M2)


\* ------------------------------------------------------------ headlines

\* texts shorter than a headline, as long as one, and longer
HeadlineTexts == {TextOf(3), TextOf(MAX_TITLE_LENGTH), TextOf(100)}

\* headlines a caller of create supplies: a short one and one that is cut
HeadlinesGiven == {<<"t">>, <<"t">> \o TextOf(90)}

\* Message.objects.create(sender=..., text=..., headline=...)
CreateWithHeadline(sender, text, headline) ==
    /\ Len(messages) < MaxMessages
    /\ LET r == create(Store, [sender |-> sender, message_type |-> ONE_TIME,
                               text |-> text, headline |-> headline], now)
       IN Commit(r.s)
    /\ UNCHANGED <<groups, now, procs>>

\* messages of all lengths, created with and without a headline
NextHeadline ==
    \/ \E u \in Users : CreatePersonalGroup(u)
    \/ \E u \in Notifiers, tx \in HeadlineTexts, hl \in HeadlinesGiven :
          CreateWithHeadline(u, tx, hl)
    \/ \E u \in Users, tx \in HeadlineTexts : CreateThread(u, {"staff"}, tx)
    \/ \E u \in Users, p \in MessageIds, tx \in HeadlineTexts : CreateResponse(u, p, tx)

SpecHeadline == Init /\ [][NextHeadline]_vars

\* h is the first MAX_TITLE_LENGTH characters of x, all of x when it is shorter
first_characters(h, x) ==
    /\ Len(h) = Min(Len(x), MAX_TITLE_LENGTH)
    /\ \A i \in 1..Len(h) : h[i] = x[i]

\* C16: the headline of a message made by create, create_thread or
\* create_response is the first 80 characters of the headline supplied, else
\* of the text, the whole string when it is shorter, character for character;
\* and no step changes the headline of a message that exists.
C16_Headline ==
    [][/\ \A u \in Notifiers : \A tx \in HeadlineTexts : \A hl \in HeadlinesGiven :
             CreateWithHeadline(u, tx, hl) =>
                 /\ Len(messages') = Len(messages) + 1
                 /\ first_characters(messages'[Len(messages')].headline, hl)
       /\ \A u \in Users : \A tx \in HeadlineTexts :
             (\/ CreateThread(u, {"staff"}, tx)
              \/ \E p \in MessageIds : CreateResponse(u, p, tx)) =>
                 /\ Len(messages') = Len(messages) + 1
                 /\ messages'[Len(messages')].text = tx
                 /\ first_characters(messages'[Len(messages')].headline, tx)
       /\ \A m \in MessageIds : messages'[m].headline = messages[m].headline]_vars

\* a thread of 100 characters has a headline of its first 80, a response of 3
\* characters has its text as headline, and a message created with a headline
\* of 91 characters has the first 80 of them
C16_Witness ==
    \E M1, M2, M3 \in MessageIds :
        /\ Len(messages[M1].text) = 100 /\ messages[M1].root = None
        /\ messages[M1].headline = TextOf(MAX_TITLE_LENGTH)
        /\ messages[M2].parent = M1 /\ Len(messages[M2].text) = 3
        /\ messages[M2].headline = messages[M2].text
        /\ messages[M3].message_type = ONE_TIME
        /\ messages[M3].headline = <<"t">> \o TextOf(MAX_TITLE_LENGTH - 1)
        /\ messages[M3].headline # Take(messages[M3].text, MAX_TITLE_LENGTH)


\* ------------------------------------------------------------ the clock

\* time passes between two calls
Tick ==
    /\ now < MaxTime
    /\ now' = now + 1
    /\ UNCHANGED <<groups, messages, recipients, memos, sender_lists, senders, procs>>

\* Message.objects.create_response(sender, text, parent) while the clock runs:
\* the message is inserted at the time the call starts, and d instants later
\* line 188 reads the clock
CreateResponseTimed(sender, parent, text, d) ==
    /\ Len(messages) < MaxMessages
    /\ now + d <= MaxTime
    /\ LET r == create_response_timed(Store, sender, text, parent, now, now + d)
       IN Commit(r.s)
    /\ now' = now + d
    /\ UNCHANGED <<groups, procs>>

\* threads, messages outside threads and replies, made one after the other
\* while time passes
NextClock ==
    \/ Tick
    \/ \E u \in Users : CreatePersonalGroup(u)
    \/ \E u \in Users, gs \in RecipientLists, tx \in Texts : CreateThread(u, gs, tx)
    \/ \E u \in Notifiers, ty \in MessageTypes, tx \in Texts : Create(u, ty, tx)
    \/ \E u \in Users, p \in MessageIds, tx \in Texts, d \in {0, 1} :
          CreateResponseTimed(u, p, tx, d)

SpecClock == Init /\ [][NextClock]_vars

\* C17: after each create_response on thread T that returns, the stored
\* last_active_at of the root of T is the time read during that call, which is
\* not before the reply was stored and not after the call's end; it is no
\* earlier than the sent_at of any message of T; and it is no earlier than it
\* was before the call.
C17_LastActive ==
    [][\A u \in Users : \A p \in MessageIds : \A tx \in Texts : \A d \in {0, 1} :
          \A M \in 1..MaxMessages :
            (CreateResponseTimed(u, p, tx, d) /\ response_returns(u, p, tx)
                /\ M = Len(messages) + 1) =>
                LET T == thread_of(p)
                IN /\ messages'[T].last_active_at = now + d
                   /\ messages'[M].sent_at = now
                   /\ messages'[M].sent_at <= messages'[T].last_active_at
                   /\ messages'[T].last_active_at <= now'
                   /\ \A m \in 1..M :
                         (m = T \/ messages'[m].root = T) =>
                             messages'[m].sent_at <= messages'[T].last_active_at
                   /\ messages[T].last_active_at <= messages'[T].last_active_at]_vars

\* a thread started at time 0 has two replies made at different times, and its
\* last_active_at is the time of the later reply, after the thread was sent
C17_Witness ==
    \E T, M1, M2 \in MessageIds :
        /\ messages[T].root = None /\ messages[T].sent_at = 0
        /\ messages[M1].root = T /\ messages[M2].root = T
        /\ recipients_of(Store, M1) # {} /\ recipients_of(Store, M2) # {}
        /\ messages[M1].sent_at < messages[M2].sent_at
        /\ messages[T].last_active_at >= messages[M2].sent_at
        /\ messages[T].last_active_at = now
        /\ messages[T].last_active_at > messages[T].sent_at


\* ------------------------------------------------------------ C18

\* C18: create_response leaves sender, root, parent, message_type, text,
\* headline and sent_at of every message that existed before the call as they
\* were; last_active_at and senders_info change on no message but the root of
\* the thread replied to; and no message loses a recipient group.
C18_ResponseFrame ==
    [][\A u \in Users : \A p \in MessageIds : \A tx \in Texts : \A d \in {0, 1} :
          CreateResponseTimed(u, p, tx, d) =>
              \A m \in MessageIds :
                  /\ messages'[m].sender = messages[m].sender
                  /\ messages'[m].root = messages[m].root
                  /\ messages'[m].parent = messages[m].parent
                  /\ messages'[m].message_type = messages[m].message_type
                  /\ messages'[m].text = messages[m].text
                  /\ messages'[m].headline = messages[m].headline
                  /\ messages'[m].sent_at = messages[m].sent_at
                  /\ m # thread_of(p) =>
                        /\ messages'[m].last_active_at = messages[m].last_active_at
                        /\ messages'[m].senders_info = messages[m].senders_info
                  /\ recipients_of(Store, m) \subseteq recipients_of(Store, m)']_vars

\* the root T of a thread has a reply to its reply: last_active_at and
\* senders_info of T are no longer those it was created with, while the first
\* reply, which was replied to, has those it was created with
C18_Witness ==
    \E T, M1, M2 \in MessageIds :
        /\ messages[T].root = None
        /\ messages[T].last_active_at > messages[T].sent_at
        /\ messages[T].senders_info # <<>>
        /\ messages[T].message_type = ONE_TIME
        /\ messages[M1].parent = T /\ messages[M2].parent = M1
        /\ recipients_of(Store, M2) # {}
        /\ messages[M2].sent_at > messages[M1].sent_at
        /\ messages[M1].last_active_at = messages[M1].sent_at
        /\ messages[M1].senders_info = <<>>


\* ------------------------------------------------------------ C19

\* C19: for every user R the deleted=False view and the deleted=True view of
\* get_threads(R) have no message in common, and together they hold exactly
\* the thread roots of type STORED addressed to a group of R.
C19_ViewsPartition ==
    \A R \in Users :
        /\ inbox(R) \cap archive(R) = {}
        /\ inbox(R) \cup archive(R) =
               {M \in MessageIds : is_thread(M) /\ covers(R, M)}

\* R has a thread in the inbox with no memo, a thread in the deleted view,
\* and another user has a memo of each of the two with the other status
C19_Witness ==
    \E R \in Users : \E U \in Users \ {R} : \E M1, M2 \in MessageIds :
        /\ M1 \in inbox(R) /\ no_memo(R, M1)
        /\ ARCHIVED \in memo_statuses(U, M1)
        /\ M2 \in archive(R) /\ M2 \notin inbox(R)
        /\ SEEN \in memo_statuses(U, M2)
        /\ \E M3 \in MessageIds :
              /\ covers(R, M3) /\ ~is_thread(M3)
              /\ M3 \notin inbox(R) \cup archive(R)


\* ------------------------------------------------------------ C20

\* C20: after any sequence of create_thread, create_response and
\* add_recipients calls, made one after the other, for every group G the
\* senders of SenderList(G) are the senders of the messages that have G among
\* their recipients, and G has a SenderList row exactly when some message has
\* G as a recipient.
C20_IndexAgrees ==
    \A g \in GroupNames :
        /\ senders_of(g) = addressed_to(g)
        /\ BagIn(g, sender_lists) <=>
               \E m \in MessageIds : g \in recipients_of(Store, m)

\* a group is a recipient of a thread of one user and of a response of the
\* other, its SenderList holds both, a message outside threads was addressed
\* with add_recipients, and another group has no message and no SenderList
C20_Witness ==
    \E g \in GroupNames : \E T, M, N \in MessageIds : \E h \in GroupNames \ {g} :
        /\ messages[T].root = None /\ messages[M].parent = T
        /\ messages[M].sender # messages[T].sender
        /\ g \in recipients_of(Store, T) \cap recipients_of(Store, M)
        /\ senders_of(g) = Users
        /\ BagIn(g, sender_lists)
        /\ messages[N].message_type = ONE_TIME /\ recipients_of(Store, N) # {}
        /\ ~BagIn(h, sender_lists)
        /\ \A m \in MessageIds : h \notin recipients_of(Store, m)

====
